---- MODULE Spec2Model ----
(***************************************************************************)
(* Model of the Wavenet analysis orchestrator, main() of                   *)
(* examples/Analyse.cxx, with the file probe of Wavenet/Utilities.h.       *)
(*                                                                         *)
(* main() is one straight-line run: pick the generator, draw the example   *)
(* signals, scan the numbered snapshots for the best run, build or load    *)
(* the cost map, reload the best snapshot, audit the basis functions and   *)
(* render one frame per kept filter state.  pc is the position in main().  *)
(*                                                                         *)
(* The engine (wavenet::Wavenet), the generators, Armadillo and ROOT are   *)
(* external: what they hand back to main() (the cost and filter logs of a  *)
(* snapshot, the triple of cost grids) is an input drawn from a small set. *)
(* The file system is the environment: snapExists is the set of snapshot   *)
(* indices on disk, snapFiles the contents read so far (a file read twice  *)
(* has the same contents), cache the three cost-map artifacts.             *)
(***************************************************************************)
EXTENDS Integers, Sequences, FiniteSets, TLC

VARIABLES
    pc,            \* position in main()
    run,           \* number of the execution of the program (files persist)
    mode,          \* wavenet::GeneratorMode mode
    generator,     \* GeneratorBase* generator: "null", "open", "closed"
    genLog,        \* calls made on the generator, in order
    examples,      \* examples.size()
    written,       \* output files written by this execution
    snapExists,    \* indices n whose snapshot file is on disk
    snapFiles,     \* contents of the snapshot files read so far
    snap,          \* snap.number()
    wavenet,       \* engine state: snapshot loaded, its costLog and filterLog
    minCost,       \* double minCost
    bestBasis,     \* int bestBasis
    longestCost,   \* unsigned longestCost
    confirmed,     \* indices for which snap.exists() has returned true
    loads,         \* indices passed to wavenet.load(), in order
    cache,         \* the three cost-map artifacts on disk
    cacheBefore,   \* artifacts present when the cost-map step ran
    costPath,      \* branch taken by the cost-map step
    costMap,       \* arma::Mat<double> costMap
    costMapSparse, \* arma::Mat<double> costMapSparse
    costMapReg,    \* arma::Mat<double> costMapReg
    firstTriple,   \* in-memory triple left by the first execution
    firstPath,     \* branch the first execution took
    Ncoeffs,       \* unsigned Ncoeffs of the render loop
    iCoeff,        \* unsigned iCoeff
    iFrame,        \* unsigned iFrame
    activeFilter,  \* filter last given to wavenet.setFilter()
    frames         \* frames written to the frame sink, in order

vars == <<pc, run, mode, generator, genLog, examples, written, snapExists,
          snapFiles, snap, wavenet, minCost, bestBasis, longestCost,
          confirmed, loads, cache, cacheBefore, costPath, costMap,
          costMapSparse, costMapReg, firstTriple, firstPath, Ncoeffs, iCoeff,
          iFrame, activeFilter, frames>>

----------------------------------------------------------------------------
(* Program constants. *)

M == 5
NumExamples == 10
InitMinCost == 99999
KeepEdge == 100
Stride == 4

(* Bounds of the model. *)

MaxCoeffs == 206
MaxRuns == 2

(* unsigned and size_t arithmetic wraps at a power of two.  TLC's integers *)
(* are 32-bit signed, so the modulus is 2^30: every value the model        *)
(* subtracts from or compares with is below 2^10, and a wrapped difference *)
(* is above every index, as it is at 2^32 and 2^64.                        *)
UnsignedMod == 2^30
SizeMod == 2^30

MaxSnap == M + 1

GeneratorModes == {"File", "Uniform", "Needle", "Gaussian"}

(* Output files, named by kind and number. *)
File(kind, n) == <<kind, n>>

(* A snapshot's contents as main() reads them: wavenet.costLog() and       *)
(* wavenet.filterLog().  A filter state is identified by its place in the  *)
(* log (1-based), so filterLog.at(i) is the state i + 1.                   *)
FilterLogOf(n) == [i \in 1..n |-> i]
RunOf(cl, n) == [costLog |-> cl, filterLog |-> FilterLogOf(n)]

(* Cost grids.  A cell is a finite double or a non-finite one. *)
FiniteCells == {"c1", "c2"}
NonFiniteCells == {"NaN", "Inf"}
EmptyGrid == <<>>
NoFile == <<"no file">>
CacheNames == {"costMap", "costMapSparse", "costMapReg"}

(* fileExists(filename): the stream opens. *)
fileExists(files, name) == files[name] # NoFile

(* arma::Mat::save writes the grid; arma::Mat::load gives it back, and     *)
(* resets the matrix to empty when the file cannot be opened.              *)
MatSave(files, name, grid) == [files EXCEPT ![name] = grid]
MatLoad(files, name) == IF files[name] = NoFile THEN EmptyGrid ELSE files[name]

(* Snapshot::exists(): the file at the resolved path is on disk. *)
SnapExists(n) == n \in snapExists

(* What wavenet.load(snap.file()) can read from snapshot n: the contents   *)
(* already read once, else any of the candidate contents.                  *)
ReadSnapshot(n, candidates) ==
    IF n \in DOMAIN snapFiles THEN {snapFiles[n]} ELSE candidates

(* costLog.size() - 2, in size_t. *)
SecondToLastIndex(costLog) == (Len(costLog) - 2) % SizeMod

(* costLog.at(i) with a 0-based i: in range or std::out_of_range. *)
InRange(costLog, i) == i < Len(costLog)
At(costLog, i) == costLog[i + 1]

(* The comparison of line 135. *)
IsBetter(cost, best) == cost < best

(* The thinning test with the upper comparison made inclusive. *)
SkipFrameInclusive(i, n) ==
    /\ i > KeepEdge
    /\ i <= (n - KeepEdge) % UnsignedMod
    /\ i % Stride > 0

(* The frame-thinning test of line 380, in unsigned. *)
SkipFrame(i, n) ==
    /\ i > KeepEdge
    /\ i < (n - KeepEdge) % UnsignedMod
    /\ i % Stride > 0

(* The frame numbered by the filter state instead of the frame counter. *)
FrameIndexByCoeff(frame, coeff) == coeff

(* The frame number of line 405: iFrame++, not iCoeff. *)
FrameIndex(frame, coeff) == frame

FreshEngine == [loaded |-> 0, costLog |-> <<>>, filterLog |-> <<>>]

----------------------------------------------------------------------------
(* The state at entry to main(), for the generator modes, the sets of      *)
(* snapshots on disk and the cost-map artifacts on disk given.             *)
ProgramStart ==
    /\ pc = "start"
    /\ generator = "null"
    /\ genLog = <<>>
    /\ examples = 0
    /\ written = {}
    /\ snap = 1
    /\ wavenet = FreshEngine
    /\ minCost = InitMinCost
    /\ bestBasis = 0
    /\ longestCost = 0
    /\ confirmed = {}
    /\ loads = <<>>
    /\ cacheBefore = {}
    /\ costPath = "none"
    /\ costMap = EmptyGrid
    /\ costMapSparse = EmptyGrid
    /\ costMapReg = EmptyGrid
    /\ Ncoeffs = 0
    /\ iCoeff = 0
    /\ iFrame = 0
    /\ activeFilter = 0
    /\ frames = <<>>

InitWith(modes, snapSets, caches) ==
    /\ ProgramStart
    /\ run = 1
    /\ mode \in modes
    /\ snapExists \in snapSets
    /\ snapFiles = <<>>
    /\ cache \in caches
    /\ firstTriple = <<EmptyGrid, EmptyGrid, EmptyGrid>>
    /\ firstPath = "none"

----------------------------------------------------------------------------
(* Lines 38-79: the engine is constructed and saved to tmp.snap. *)
Startup ==
    /\ pc = "start"
    /\ written' = written \cup {File("tmp.snap", 0)}
    /\ pc' = "select"
    /\ UNCHANGED <<run, mode, generator, genLog, examples, snapExists,
                   snapFiles, snap, wavenet, minCost, bestBasis, longestCost,
                   confirmed, loads, cache, cacheBefore, costPath, costMap,
                   costMapSparse, costMapReg, firstTriple, firstPath, Ncoeffs,
                   iCoeff, iFrame, activeFilter, frames>>

(* Lines 81-95: in File mode no generator is constructed (line 83 is       *)
(* commented out), so the readiness test fails and main() returns; the     *)
(* other modes construct their generator and set its shape.                *)
SelectGenerator ==
    /\ pc = "select"
    /\ IF mode = "File"
       THEN /\ pc' = "failed"
            /\ UNCHANGED <<generator, genLog>>
       ELSE /\ generator' = "open"
            /\ genLog' = Append(genLog, "setShape")
            /\ pc' = "examples"
    /\ UNCHANGED <<run, mode, examples, written, snapExists, snapFiles, snap,
                   wavenet, minCost, bestBasis, longestCost, confirmed, loads,
                   cache, cacheBefore, costPath, costMap, costMapSparse,
                   costMapReg, firstTriple, firstPath, Ncoeffs, iCoeff, iFrame,
                   activeFilter, frames>>

(* Lines 99-104: one pass of the example loop. *)
GenerateExample ==
    /\ pc = "examples"
    /\ examples < NumExamples
    /\ genLog' = Append(genLog, "next")
    /\ examples' = examples + 1
    /\ written' = written \cup {File("exampleSignal", examples + 1)}
    /\ UNCHANGED <<pc, run, mode, generator, snapExists, snapFiles, snap,
                   wavenet, minCost, bestBasis, longestCost, confirmed, loads,
                   cache, cacheBefore, costPath, costMap, costMapSparse,
                   costMapReg, firstTriple, firstPath, Ncoeffs, iCoeff, iFrame,
                   activeFilter, frames>>

(* Line 105: generator->close(). *)
CloseGenerator ==
    /\ pc = "examples"
    /\ ~(examples < NumExamples)
    /\ genLog' = Append(genLog, "close")
    /\ generator' = "closed"
    /\ pc' = "scan"
    /\ UNCHANGED <<run, mode, examples, written, snapExists, snapFiles, snap,
                   wavenet, minCost, bestBasis, longestCost, confirmed, loads,
                   cache, cacheBefore, costPath, costMap, costMapSparse,
                   costMapReg, firstTriple, firstPath, Ncoeffs, iCoeff, iFrame,
                   activeFilter, frames>>

(* Lines 114-156: one pass of the snapshot scan.  The snapshot is loaded,  *)
(* its cost log is read at size() - 2 with at(), which throws when that    *)
(* index is out of range (nothing catches it: the program ends), and the   *)
(* cursor advances.                                                        *)
ScanSnapshot(candidates) ==
    /\ pc = "scan"
    /\ SnapExists(snap) /\ snap <= M
    /\ \E content \in ReadSnapshot(snap, candidates) :
         LET costLog == content.costLog
             idx == SecondToLastIndex(costLog)
         IN  /\ snapFiles' = (snap :> content) @@ snapFiles
             /\ wavenet' = [loaded |-> snap, costLog |-> costLog,
                            filterLog |-> content.filterLog]
             /\ longestCost' = IF Len(costLog) > longestCost
                                  THEN Len(costLog) ELSE longestCost
             /\ IF ~InRange(costLog, idx)
                THEN /\ pc' = "aborted"
                     /\ UNCHANGED <<snap, minCost, bestBasis>>
                ELSE /\ IF IsBetter(At(costLog, idx), minCost)
                        THEN /\ bestBasis' = snap - 1
                             /\ minCost' = At(costLog, idx)
                        ELSE UNCHANGED <<bestBasis, minCost>>
                     /\ snap' = snap + 1
                     /\ pc' = "scan"
    /\ confirmed' = confirmed \cup {snap}
    /\ loads' = Append(loads, snap)
    /\ UNCHANGED <<run, mode, generator, genLog, examples, written,
                   snapExists, cache, cacheBefore, costPath, costMap,
                   costMapSparse, costMapReg, firstTriple, firstPath, Ncoeffs,
                   iCoeff, iFrame, activeFilter, frames>>

(* Lines 114, 158-186: the loop test fails (snap.exists() is evaluated     *)
(* first) and the cost graphs are drawn and saved.                         *)
DrawCostGraphs ==
    /\ pc = "scan"
    /\ ~(SnapExists(snap) /\ snap <= M)
    /\ confirmed' = IF SnapExists(snap) THEN confirmed \cup {snap}
                                        ELSE confirmed
    /\ written' = written \cup {File("CostGraph", 0)}
    /\ pc' = "costmap"
    /\ UNCHANGED <<run, mode, generator, genLog, examples, snapExists,
                   snapFiles, snap, wavenet, minCost, bestBasis, longestCost,
                   loads, cache, cacheBefore, costPath, costMap,
                   costMapSparse, costMapReg, firstTriple, firstPath, Ncoeffs,
                   iCoeff, iFrame, activeFilter, frames>>

(* Lines 206-234: the cost-map step.  Only the costMap artifact is probed. *)
(* When it is missing the engine computes the triple costs, each grid is   *)
(* passed through the one matrix costMap and saved, and costMap is left    *)
(* holding costs(0,0); otherwise the three artifacts are loaded.           *)
CostMapStep(engineCosts) ==
    /\ pc = "costmap"
    /\ cacheBefore' = {n \in CacheNames : fileExists(cache, n)}
    /\ IF ~fileExists(cache, "costMap")
       THEN \E costs \in engineCosts :
              /\ cache' = MatSave(MatSave(MatSave(cache,
                              "costMap", costs[1]),
                              "costMapSparse", costs[2]),
                              "costMapReg", costs[3])
              /\ costMap' = costs[1]
              /\ UNCHANGED <<costMapSparse, costMapReg>>
              /\ written' = written \cup {File(n, 0) : n \in CacheNames}
              /\ costPath' = "computed"
       ELSE /\ costMap' = MatLoad(cache, "costMap")
            /\ costMapSparse' = MatLoad(cache, "costMapSparse")
            /\ costMapReg' = MatLoad(cache, "costMapReg")
            /\ costPath' = "loaded"
            /\ UNCHANGED <<cache, written>>
    /\ pc' = "drawmap"
    /\ UNCHANGED <<run, mode, generator, genLog, examples, snapExists,
                   snapFiles, snap, wavenet, minCost, bestBasis, longestCost,
                   confirmed, loads, firstTriple, firstPath, Ncoeffs, iCoeff,
                   iFrame, activeFilter, frames>>

(* Lines 237-313: the cost map is drawn and saved. *)
DrawCostMap ==
    /\ pc = "drawmap"
    /\ written' = written \cup {File("CostMap", 0)}
    /\ pc' = "loadbest"
    /\ UNCHANGED <<run, mode, generator, genLog, examples, snapExists,
                   snapFiles, snap, wavenet, minCost, bestBasis, longestCost,
                   confirmed, loads, cache, cacheBefore, costPath, costMap,
                   costMapSparse, costMapReg, firstTriple, firstPath, Ncoeffs,
                   iCoeff, iFrame, activeFilter, frames>>

(* Lines 319-320: the cursor jumps to the best run and the engine loads    *)
(* that path, with no probe.  Loading a path that is not on disk leaves    *)
(* the engine as it was.                                                   *)
LoadBest(candidates) ==
    /\ pc = "loadbest"
    /\ snap' = bestBasis + 1
    /\ loads' = Append(loads, bestBasis + 1)
    /\ IF SnapExists(bestBasis + 1)
       THEN \E content \in ReadSnapshot(bestBasis + 1, candidates) :
              /\ snapFiles' = ((bestBasis + 1) :> content) @@ snapFiles
              /\ wavenet' = [loaded |-> bestBasis + 1,
                             costLog |-> content.costLog,
                             filterLog |-> content.filterLog]
       ELSE UNCHANGED <<snapFiles, wavenet>>
    /\ pc' = "audit"
    /\ UNCHANGED <<run, mode, generator, genLog, examples, written,
                   snapExists, minCost, bestBasis, longestCost, confirmed,
                   cache, cacheBefore, costPath, costMap, costMapSparse,
                   costMapReg, firstTriple, firstPath, Ncoeffs, iCoeff, iFrame,
                   activeFilter, frames>>

(* Lines 324-369: the orthonormality audit reads the generator's shape     *)
(* twice and saves the histogram of norms.                                 *)
AuditBasis ==
    /\ pc = "audit"
    /\ genLog' = genLog \o <<"shape", "shape">>
    /\ written' = written \cup {File("NormDistributions", 0)}
    /\ pc' = "renderstart"
    /\ UNCHANGED <<run, mode, generator, examples, snapExists, snapFiles,
                   snap, wavenet, minCost, bestBasis, longestCost, confirmed,
                   loads, cache, cacheBefore, costPath, costMap,
                   costMapSparse, costMapReg, firstTriple, firstPath, Ncoeffs,
                   iCoeff, iFrame, activeFilter, frames>>

(* Lines 373-376: the render loop's counters. *)
RenderStart ==
    /\ pc = "renderstart"
    /\ Ncoeffs' = Len(wavenet.filterLog)
    /\ iCoeff' = 0
    /\ iFrame' = 0
    /\ pc' = "render"
    /\ UNCHANGED <<run, mode, generator, genLog, examples, written,
                   snapExists, snapFiles, snap, wavenet, minCost, bestBasis,
                   longestCost, confirmed, loads, cache, cacheBefore, costPath,
                   costMap, costMapSparse, costMapReg, firstTriple, firstPath,
                   activeFilter, frames>>

(* Lines 377-410: one pass of the render loop.  The filter state is made   *)
(* the engine's filter, then the state is skipped or its frame is composed *)
(* from the filter in force and saved under the next frame number.         *)
RenderState ==
    /\ pc = "render"
    /\ iCoeff < Ncoeffs
    /\ activeFilter' = At(wavenet.filterLog, iCoeff)
    /\ IF SkipFrame(iCoeff, Ncoeffs)
       THEN UNCHANGED <<frames, written, iFrame>>
       ELSE /\ frames' = Append(frames,
                   [index |-> FrameIndex(iFrame, iCoeff), state |-> iCoeff,
                    filter |-> activeFilter'])
            /\ written' = written \cup
                   {File("bestBasis", FrameIndex(iFrame, iCoeff))}
            /\ iFrame' = iFrame + 1
    /\ iCoeff' = iCoeff + 1
    /\ UNCHANGED <<pc, run, mode, generator, genLog, examples, snapExists,
                   snapFiles, snap, wavenet, minCost, bestBasis, longestCost,
                   confirmed, loads, cache, cacheBefore, costPath, costMap,
                   costMapSparse, costMapReg, firstTriple, firstPath, Ncoeffs>>

(* Lines 377, 412-448: the render loop ends and main() returns. *)
Finish ==
    /\ pc = "render"
    /\ ~(iCoeff < Ncoeffs)
    /\ pc' = "done"
    /\ UNCHANGED <<run, mode, generator, genLog, examples, written,
                   snapExists, snapFiles, snap, wavenet, minCost, bestBasis,
                   longestCost, confirmed, loads, cache, cacheBefore, costPath,
                   costMap, costMapSparse, costMapReg, firstTriple, firstPath,
                   Ncoeffs, iCoeff, iFrame, activeFilter, frames>>

(* The program is run again with the same arguments: main() starts anew,   *)
(* the files on disk are those the earlier execution left.                 *)
RunAgain ==
    /\ pc \in {"done", "failed", "aborted"}
    /\ run < MaxRuns
    /\ run' = run + 1
    /\ firstTriple' = IF run = 1 THEN <<costMap, costMapSparse, costMapReg>>
                                 ELSE firstTriple
    /\ firstPath' = IF run = 1 THEN costPath ELSE firstPath
    /\ pc' = "start"
    /\ generator' = "null"
    /\ genLog' = <<>>
    /\ examples' = 0
    /\ written' = {}
    /\ snap' = 1
    /\ wavenet' = FreshEngine
    /\ minCost' = InitMinCost
    /\ bestBasis' = 0
    /\ longestCost' = 0
    /\ confirmed' = {}
    /\ loads' = <<>>
    /\ cacheBefore' = {}
    /\ costPath' = "none"
    /\ costMap' = EmptyGrid
    /\ costMapSparse' = EmptyGrid
    /\ costMapReg' = EmptyGrid
    /\ Ncoeffs' = 0
    /\ iCoeff' = 0
    /\ iFrame' = 0
    /\ activeFilter' = 0
    /\ frames' = <<>>
    /\ UNCHANGED <<mode, snapExists, snapFiles, cache>>

----------------------------------------------------------------------------
(* Inputs. *)

(* Cost grids of an earlier generation, and what the engine computes now. *)
OldCosts == [n \in CacheNames |-> <<"c2", "c2">>]
CleanCosts == << <<"c1", "c2">>, <<"c2", "c1">>, <<"c1", "c1">> >>
EngineCosts ==
    { CleanCosts,
      << <<"c1", "c2">>, <<"NaN", "c1">>, <<"c1", "c1">> >>,
      << <<"c1", "Inf">>, <<"c2", "c1">>, <<"c1", "NaN">> >> }

CacheWith(present) ==
    [n \in CacheNames |-> IF n \in present THEN OldCosts[n] ELSE NoFile]
EmptyCache == CacheWith({})
AllCaches == {CacheWith(present) : present \in SUBSET CacheNames}

(* Snapshot contents for the scan: cost logs of length 0 to 3, with        *)
(* second-to-last entries below, at and above the initial minCost.         *)
ScanRuns ==
    { RunOf(<<>>, 0),
      RunOf(<<3>>, 1),
      RunOf(<<7, 100000>>, 2),
      RunOf(<<100000, 5, 1>>, 2),
      RunOf(<<99999, 1>>, 1),
      RunOf(<<100000, 1>>, 1) }

(* One trained run, and runs with filter logs of every length. *)
OneRun == {RunOf(<<7, 1>>, 2), RunOf(<<3>>, 1)}
LongRuns == {RunOf(<<7, 1>>, n) : n \in 0..MaxCoeffs}

(* The orchestrator over every set of snapshots on disk. *)
Init == InitWith(GeneratorModes, SUBSET (1..MaxSnap), {EmptyCache})

Next ==
    \/ Startup
    \/ SelectGenerator
    \/ GenerateExample
    \/ CloseGenerator
    \/ ScanSnapshot(ScanRuns)
    \/ DrawCostGraphs
    \/ CostMapStep({CleanCosts})
    \/ DrawCostMap
    \/ LoadBest(ScanRuns)
    \/ AuditBasis
    \/ RenderStart
    \/ RenderState
    \/ Finish

Spec == Init /\ [][Next]_vars

(* The cost-map cache over every combination of artifacts on disk, the     *)
(* program run up to MaxRuns times.                                        *)
InitCache == InitWith({"File", "Needle"}, {{1}, {1, 2}}, AllCaches)

NextCache ==
    \/ Startup
    \/ SelectGenerator
    \/ GenerateExample
    \/ CloseGenerator
    \/ ScanSnapshot(OneRun)
    \/ DrawCostGraphs
    \/ CostMapStep(EngineCosts)
    \/ DrawCostMap
    \/ LoadBest(OneRun)
    \/ AuditBasis
    \/ RenderStart
    \/ RenderState
    \/ Finish
    \/ RunAgain

SpecCache == InitCache /\ [][NextCache]_vars

(* The render loop over filter logs of every length up to MaxCoeffs. *)
InitRender == InitWith({"File", "Gaussian"}, {{1}}, {EmptyCache})

NextRender ==
    \/ Startup
    \/ SelectGenerator
    \/ GenerateExample
    \/ CloseGenerator
    \/ ScanSnapshot(LongRuns)
    \/ DrawCostGraphs
    \/ CostMapStep({CleanCosts})
    \/ DrawCostMap
    \/ LoadBest(LongRuns)
    \/ AuditBasis
    \/ RenderStart
    \/ RenderState
    \/ Finish

SpecRender == InitRender /\ [][NextRender]_vars

----------------------------------------------------------------------------
(* Properties. *)

AfterBestLoad == {"audit", "renderstart", "render", "done"}
AfterScan == {"costmap", "drawmap", "loadbest", "aborted"} \cup AfterBestLoad

(* The indices loaded by the scan: every load but the one of line 320. *)
ScanLoads ==
    IF pc \in AfterBestLoad THEN SubSeq(loads, 1, Len(loads) - 1) ELSE loads

(* The largest k <= M with 1..k on disk. *)
ContiguousRuns ==
    CHOOSE k \in 0..M :
        /\ \A n \in 1..k : n \in snapExists
        /\ k = M \/ (k + 1) \notin snapExists

(* The second-to-last cost-log entry of a snapshot that has been read. *)
SecondToLast(n) ==
    LET costLog == snapFiles[n].costLog IN costLog[Len(costLog) - 1]

Triple == <<costMap, costMapSparse, costMapReg>>

(* C1: when the cost-map step has run, the grids were loaded only if all   *)
(* three artifacts were present, and if any was missing the step took the  *)
(* compute path and wrote all three artifacts.                             *)
C1_CacheConsistency ==
    costPath # "none" =>
        /\ costPath = "loaded" => cacheBefore = CacheNames
        /\ cacheBefore # CacheNames =>
              /\ costPath = "computed"
              /\ \A n \in CacheNames : File(n, 0) \in written

(* C2: when the first execution computed the cost map and a later one      *)
(* loads the artifacts it wrote, the in-memory triple after the load is    *)
(* the in-memory triple the first execution had after computing.           *)
C2_CacheIdempotence ==
    (run > 1 /\ firstPath = "computed" /\ costPath = "loaded") =>
        Triple = firstTriple

(* C3: when main() has ended on the generator-readiness failure, no        *)
(* example was generated and no file was written.                          *)
C3_NoOutputOnFailure ==
    pc = "failed" => examples = 0 /\ written = {}

(* C4: for a family of N contiguous snapshots, 1 <= N <= M, the snapshot   *)
(* loaded when basis-function synthesis begins is one the scan loaded and  *)
(* its second-to-last cost-log entry is the least of the second-to-last    *)
(* entries of the snapshots scanned.                                       *)
C4_BestRunSelected ==
    (pc \in AfterBestLoad /\ \E N \in 1..M : snapExists = 1..N) =>
        /\ \E i \in 1..Len(ScanLoads) : ScanLoads[i] = wavenet.loaded
        /\ \A i \in 1..Len(ScanLoads) :
              SecondToLast(wavenet.loaded) <= SecondToLast(ScanLoads[i])

(* C5: every index the engine has loaded is one for which exists() has     *)
(* returned true in this execution.                                        *)
C5_ProbeThenLoad ==
    \A i \in 1..Len(loads) : loads[i] \in confirmed

(* C6: every cell of every cost-map artifact on disk is finite. *)
C6_ArtifactsFinite ==
    \A n \in CacheNames :
        cache[n] # NoFile =>
            \A k \in 1..Len(cache[n]) : cache[n][k] \in FiniteCells

(* C7: once the scan is over it has loaded exactly 1, 2, ..., k in that    *)
(* order, k the largest value with k <= M and 1..k on disk.                *)
C7_ScanOrder ==
    pc \in AfterScan => ScanLoads = [i \in 1..ContiguousRuns |-> i]

(* The thinning rule as stated: the first KeepEdge states, the last        *)
(* KeepEdge states and every Stride-th state are kept.                     *)
Kept(i, n) == i < KeepEdge \/ i >= n - KeepEdge \/ i % Stride = 0

(* C8: the filter state just processed has produced a frame if and only if *)
(* it is among the first 100 states, among the last 100 states or at a     *)
(* multiple of 4; no state is skipped when the log has at most 200 states, *)
(* and the first and last states are rendered.                             *)
C8_FrameThinning ==
    pc \in {"render", "done"} =>
        /\ iCoeff > 0 =>
              ((frames # <<>> /\ frames[Len(frames)].state = iCoeff - 1)
                  <=> Kept(iCoeff - 1, Ncoeffs))
        /\ Ncoeffs <= 2 * KeepEdge => Len(frames) = iCoeff
        /\ (pc = "done" /\ Ncoeffs > 0) =>
              /\ frames[1].state = 0
              /\ frames[Len(frames)].state = Ncoeffs - 1

(* C8, witness: a render of more than 200 states has ended with some       *)
(* states skipped.                                                         *)
C8_Witness ==
    pc = "done" /\ Ncoeffs > 2 * KeepEdge /\ Len(frames) < Ncoeffs

(* C9: the frames written are numbered 0, 1, 2, ... without gap or repeat, *)
(* there is one per non-skipped state processed so far, in filter-log      *)
(* order, and each was composed with the engine's filter set to its own    *)
(* filter-log state.                                                       *)
C9_FrameNumbering ==
    pc \in {"render", "done"} =>
        /\ Len(frames) =
              Cardinality({i \in 0..(iCoeff - 1) : ~SkipFrame(i, Ncoeffs)})
        /\ iFrame = Len(frames)
        /\ \A f \in 1..Len(frames) :
              /\ frames[f].index = f - 1
              /\ ~SkipFrame(frames[f].state, Ncoeffs)
              /\ frames[f].filter = wavenet.filterLog[frames[f].state + 1]
              /\ f > 1 => frames[f - 1].state < frames[f].state
        /\ \A f \in 1..Len(frames) : File("bestBasis", f - 1) \in written

(* C9, witness: a render has ended with more than 200 frames written and   *)
(* some states skipped, so frame numbers and state indices differ.         *)
C9_Witness ==
    /\ pc = "done"
    /\ Len(frames) > 2 * KeepEdge
    /\ frames[Len(frames)].index < frames[Len(frames)].state

(* C10: for every snapshot the scan has loaded, size() - 2 is an index     *)
(* into its cost log, and the scan has not ended on an out-of-range access.*)
C10_IndexValid ==
    /\ pc # "aborted"
    /\ \A i \in 1..Len(ScanLoads) :
          LET costLog == snapFiles[ScanLoads[i]].costLog
          IN  InRange(costLog, SecondToLastIndex(costLog))


(* C11: in an execution that has reached Done, setShape was called on the  *)
(* generator before every next(), and no call on the generator follows     *)
(* its close().                                                            *)
C11_GeneratorLifecycle ==
    pc = "done" =>
        /\ \A i \in 1..Len(genLog) :
              genLog[i] = "next" =>
                  \E j \in 1..(i - 1) : genLog[j] = "setShape"
        /\ \A i \in 1..Len(genLog) :
              genLog[i] = "close" => i = Len(genLog)

====
